---- MODULE Spec2Model ----
(***************************************************************************)
(* TaggedPointer<Ts...> (src/tagged_pointer.h) and detail::dispatch_call   *)
(* (src/include/dispatch_call.h).                                          *)
(*                                                                         *)
(* Machine integers are modelled bit by bit: a value of type uintptr_t or  *)
(* unsigned is the set of the positions of its 1 bits, so that shifts,     *)
(* masks, truncation and wrap-around are computed as the hardware computes *)
(* them.  A type of the parameter pack Ts... is its zero-indexed position, *)
(* std::nullptr_t is NullptrT.                                             *)
(***************************************************************************)
EXTENDS Integers, Sequences, FiniteSets, TLC

VARIABLES
    N,        \* sizeof...(Ts) of the instantiation TaggedPointer<T0..T(N-1)>
    a,        \* tagged_address of the reference a
    b,        \* tagged_address of the reference b
    madeA,    \* history: the constructor call that produced a's current value
    madeB,    \* history: the constructor call that produced b's current value
    last,     \* the last operation applied and what it returned
    reader    \* a second thread that runs call or cast<T> on a: where it is in
              \* the member function, the values it has loaded from a's word,
              \* and (history) the values a's word held while it ran

vars == <<N, a, b, madeA, madeB, last, reader>>

----------------------------------------------------------------------------
(* Bounds of the model *)

\* largest type-set size instantiated in Spec
MaxTypes == 33

\* largest type-set size instantiated in SpecPair
MaxPairTypes == 4

\* largest type-set size instantiated in SpecConc
MaxConcTypes == 2

----------------------------------------------------------------------------
(* Machine integers *)

UINTPTR_BITS == 64

UNSIGNED_BITS == 32

\* the bits of a small natural number (a literal or a compile-time constant)
FromNat(n) == {i \in 0..30 : (n \div (2 ^ i)) % 2 = 1}

RECURSIVE ToNat(_)
\* the value of a machine integer below 2^31
ToNat(w) ==
    IF w = {} THEN 0
    ELSE LET i == CHOOSE x \in w : TRUE IN (2 ^ i) + ToNat(w \ {i})

\* x << k on uintptr_t: bits shifted past the width are lost
ShiftLeft(w, k) == {i + k : i \in {x \in w : x + k < UINTPTR_BITS}}

\* x >> k on an unsigned type
ShiftRight(w, k) == {i - k : i \in {x \in w : x >= k}}

BitOr(x, y) == x \cup y

BitAnd(x, y) == x \cap y

\* static_cast to an unsigned type of `width` bits
Truncate(w, width) == {i \in w : i < width}

\* x - 1 on an unsigned type of `width` bits (wraps at 0)
MinusOne(w, width) ==
    IF w = {} THEN 0..(width - 1)
    ELSE LET m == CHOOSE x \in w : \A y \in w : x <= y
         IN (w \ {m}) \cup 0..(m - 1)

RECURSIVE Minus(_, _, _)
\* x - n on an unsigned type of `width` bits
Minus(w, n, width) ==
    IF n = 0 THEN w ELSE Minus(MinusOne(w, width), n - 1, width)

\* reinterpret_cast of nullptr
nullptr == {}

----------------------------------------------------------------------------
(* detail::IndexOfType, detail::ContainsType *)

NullptrT == -1

\* the parameter pack Ts... of the instantiation: T0, ..., T(N-1)
Ts == [i \in 1..N |-> i - 1]

RECURSIVE IndexOfTypeFrom(_, _, _)
\* IndexOfType<T, Ts...> for the pack's suffix that starts at position i: 0 when
\* T is its first type, else 1 + the index of T in the rest
IndexOfTypeFrom(T, pack, i) ==
    IF pack[i] = T THEN 0 ELSE 1 + IndexOfTypeFrom(T, pack, i + 1)

\* mutant: the recursive case does not add 1 for the skipped type
IndexOfType_no_increment(T, pack) == 0

\* IndexOfType_v<T, Ts...>
IndexOfType(T, pack) == IndexOfTypeFrom(T, pack, 1)

ContainsType(T, pack) == \E i \in 1..Len(pack) : pack[i] = T

----------------------------------------------------------------------------
(* class TaggedPointer *)

sizeof_uintptr_t == UINTPTR_BITS \div 8

\* the static_assert of the class: the only condition an instantiation checks
Instantiable == sizeof_uintptr_t >= 8

TAG_SHIFT == 59

GET_PTR_MASK == MinusOne(ShiftLeft(FromNat(1), TAG_SHIFT), UINTPTR_BITS)

num_types == Len(Ts)

\* mutant: counts the position in Ts... one-indexed and then again adds the
\* place of std::nullptr_t
get_tag_of_type_counted_twice(T) == IndexOfType(T, <<NullptrT>> \o Ts) + 1

get_tag_of_type(T) == IndexOfType(T, <<NullptrT>> \o Ts)

\* mutant: shifts by one bit too many, which drops the lowest bit of the tag
tag_shifted_too_far(w) == Truncate(ShiftRight(w, TAG_SHIFT + 1), UNSIGNED_BITS)

tag(w) == Truncate(ShiftRight(w, TAG_SHIFT), UNSIGNED_BITS)

\* mutant: returns the tagged address without masking the tag out
ptr_unmasked(w) == w

ptr(w) == BitAnd(w, GET_PTR_MASK)

points_to_type(w, T) == tag(w) = FromNat(get_tag_of_type(T))

\* mutant: the cast without the check of the tag
cast_without_check(w, T) == ptr(w)

cast(w, T) == IF points_to_type(w, T) THEN ptr(w) ELSE nullptr

\* mutant: the unchecked cast checks the tag as cast does
cast_unchecked_checking(w, T) == cast(w, T)

cast_unchecked(w, T) == ptr(w)

\* mutant: compares the addresses only
operator_eq_addresses_only(w, other) == ptr(w) = ptr(other)

operator_eq(w, other) == w = other

operator_ne(w, other) == w # other

\* TaggedPointer(const T *ptr)
TaggedPointer_ptr(T, p) ==
    BitOr(p, ShiftLeft(FromNat(get_tag_of_type(T)), TAG_SHIFT))

\* TaggedPointer(std::nullptr_t)
TaggedPointer_nullptr == FromNat(0)

\* mutant: the default constructor makes a null pointer of the first type
TaggedPointer_default_first_type == TaggedPointer_ptr(0, nullptr)

\* TaggedPointer()
TaggedPointer_default == TaggedPointer_nullptr

----------------------------------------------------------------------------
(* detail::dispatch_call *)

\* the visitors passed to call: each returns one type for every candidate type;
\* "type_id" and "address" return by value, "member_ref" returns a reference to
\* a data member of the pointee
Funcs == {"type_id", "address", "member_ref"}

\* the declared return type of the visitor's call operator
ReturnType(func) == IF func = "member_ref" THEN "reference" ELSE "value"

\* the return type of a function declared `auto f(...)`: deduced from the
\* returned expression as for `auto x = e`, which drops the reference
auto_return(type) == "value"

\* the return type of a function declared `decltype(auto) f(...)`: the type of
\* the returned expression, reference kept
decltype_auto_return(type) == type

\* func(static_cast<[const] T*>(ptr)): the value the visitor yields for a view
\* (the data member of an object of type T holds T's number)
Invoke(func, view) ==
    IF func = "address" THEN view.ptr ELSE view.type

\* the overloads of dispatch_call<Func, Ts...> whose template parameters the
\* explicitly given pack of n types can fill: the overload of exactly n types
\* (n = 1..8), and the overload T0..T7, Ts... (whose trailing pack may be empty)
ViableOverloads(n) ==
    (IF n \in 1..8 THEN {"exactly_n"} ELSE {})
        \cup (IF n >= 8 THEN {"more_than_8"} ELSE {})

\* a call the build rejects: no overload, or more than one and none better
IllFormed ==
    [built |-> FALSE, calls |-> <<>>, ret |-> 0, rtype |-> "none", aliases |-> {}]

\* return func(static_cast<T*>(ptr)); from a function declared `auto`: rtype is
\* the deduced return type, aliases the objects the returned value refers to
\* (the pointee for a reference, none for a copy)
Invoked(func, view) ==
    LET rtype == auto_return(ReturnType(func))
    IN [built |-> TRUE, calls |-> <<view>>, ret |-> Invoke(func, view),
        rtype |-> rtype,
        aliases |-> IF rtype = "reference" THEN {view.ptr} ELSE {}]

View(T, const, p) == [type |-> T, const |-> const, ptr |-> p]

\* the switch of an overload of exactly n types: case 0 .. case n-2, default
SwitchFixed(func, pack, const, p, type_index) ==
    LET n == Len(pack)
        hit == {k \in 0..(n - 2) : type_index = FromNat(k)}
    IN IF hit # {}
       THEN Invoked(func, View(pack[(CHOOSE k \in hit : TRUE) + 1], const, p))
       ELSE Invoked(func, View(pack[n], const, p))

RECURSIVE dispatch_call(_, _, _, _, _)
dispatch_call(func, pack, const, p, type_index) ==
    LET n == Len(pack)
        viable == ViableOverloads(n)
    IN IF Cardinality(viable) # 1 THEN IllFormed
       ELSE IF viable = {"more_than_8"}
       THEN LET hit == {k \in 0..7 : type_index = FromNat(k)}
                \* the recursive call is instantiated whatever type_index is
                rest == dispatch_call(func, SubSeq(pack, 9, n), const, p,
                                      Minus(type_index, 8, UNSIGNED_BITS))
            IN IF ~rest.built THEN IllFormed
               ELSE IF hit # {}
               THEN Invoked(func, View(pack[(CHOOSE k \in hit : TRUE) + 1], const, p))
               ELSE rest
       ELSE SwitchFixed(func, pack, const, p, type_index)

\* TaggedPointer::call, the non-const (const = FALSE) and the const overload
\* return detail::dispatch_call<Func, Ts...>(func, p, t - 1), for the values p
\* and t that the argument expressions ptr() and tag() evaluated to
call_with(p, t, func, const) ==
    LET r == dispatch_call(func, Ts, const, p, MinusOne(t, UNSIGNED_BITS))
    IN IF r.built THEN [r EXCEPT !.rtype = decltype_auto_return(@)] ELSE r

\* TaggedPointer::call on a word that does not change while call runs
call(w, func, const) == call_with(ptr(w), tag(w), func, const)

----------------------------------------------------------------------------
(* The operations of a program that holds two references, a and b *)

\* the pointer values passed to TaggedPointer(const T *ptr): the null pointer,
\* two addresses below bit TAG_SHIFT (one with bit 58, the highest address bit)
\* and one address with bits at and above TAG_SHIFT
Addrs == {nullptr, {3}, {4, 58}, {3, 59, 61}}

Made(ctor, T, p) == [ctor |-> ctor, type |-> T, addr |-> p]

Did(op, func, const, res) ==
    [op |-> op, func |-> func, const |-> const, res |-> res]

NoFunc == "none"

\* the types T that satisfy ContainsType<T, Ts...>
Candidates == {T \in 0..(N - 1) : ContainsType(T, Ts)}

\* the second thread before it has called a member function of a
Idle ==
    [pc |-> "idle", op |-> "none", func |-> NoFunc, const |-> FALSE,
     T |-> NullptrT, ptrv |-> {}, tagv |-> {}, seen |-> {}, res |-> 0]

\* TaggedPointer<T0..T(N-1)> a, b;
Instantiate(n) ==
    /\ Instantiable
    /\ N = n
    /\ a = TaggedPointer_default
    /\ b = TaggedPointer_default
    /\ madeA = Made("default", NullptrT, nullptr)
    /\ madeB = Made("default", NullptrT, nullptr)
    /\ last = Did("instantiate", NoFunc, FALSE, 0)
    /\ reader = Idle

Init == \E n \in 1..MaxTypes : Instantiate(n)

InitPair == \E n \in 1..MaxPairTypes : Instantiate(n)

\* a = TaggedPointer();
DefaultConstructA ==
    /\ a' = TaggedPointer_default
    /\ madeA' = Made("default", NullptrT, nullptr)
    /\ last' = Did("construct", NoFunc, FALSE, a')
    /\ UNCHANGED <<N, b, madeB>>

\* a = nullptr;
NullConstructA ==
    /\ a' = TaggedPointer_nullptr
    /\ madeA' = Made("nullptr", NullptrT, nullptr)
    /\ last' = Did("construct", NoFunc, FALSE, a')
    /\ UNCHANGED <<N, b, madeB>>

\* a = p, p a const T*; requires ContainsType<T, Ts...>
ConstructA(T, p) ==
    /\ ContainsType(T, Ts)
    /\ a' = TaggedPointer_ptr(T, p)
    /\ madeA' = Made("typed", T, p)
    /\ last' = Did("construct", NoFunc, FALSE, a')
    /\ UNCHANGED <<N, b, madeB>>

\* b = nullptr;
NullConstructB ==
    /\ b' = TaggedPointer_nullptr
    /\ madeB' = Made("nullptr", NullptrT, nullptr)
    /\ last' = Did("construct_b", NoFunc, FALSE, b')
    /\ UNCHANGED <<N, a, madeA>>

\* b = p, p a const T*
ConstructB(T, p) ==
    /\ ContainsType(T, Ts)
    /\ b' = TaggedPointer_ptr(T, p)
    /\ madeB' = Made("typed", T, p)
    /\ last' = Did("construct_b", NoFunc, FALSE, b')
    /\ UNCHANGED <<N, a, madeA>>

\* b = a; (the implicit copy: the word is copied whole)
CopyAToB ==
    /\ b' = a
    /\ madeB' = madeA
    /\ last' = Did("copy_b", NoFunc, FALSE, b')
    /\ UNCHANGED <<N, a, madeA>>

\* a = b;
CopyBToA ==
    /\ a' = b
    /\ madeA' = madeB
    /\ last' = Did("copy_a", NoFunc, FALSE, a')
    /\ UNCHANGED <<N, b, madeB>>

\* an operation on a that returns res; a member template is applied for every
\* candidate type T, and res maps T to what the instantiation for T returned
Read(op, func, const, res) ==
    /\ last' = Did(op, func, const, res)
    /\ UNCHANGED <<N, a, b, madeA, madeB>>

NumTypes == Read("num_types", NoFunc, FALSE, num_types)

Tag == Read("tag", NoFunc, TRUE, tag(a))

Ptr(const) == Read("ptr", NoFunc, const, ptr(a))

Cast(const) ==
    Read("cast", NoFunc, const, [T \in Candidates |-> cast(a, T)])

CastUnchecked(const) ==
    Read("cast_unchecked", NoFunc, const, [T \in Candidates |-> cast_unchecked(a, T)])

PointsToType ==
    Read("points_to_type", NoFunc, TRUE, [T \in Candidates |-> points_to_type(a, T)])

\* get_tag_of_type<T>() for std::nullptr_t and for every candidate type T
GetTagOfType ==
    Read("get_tag_of_type", NoFunc, TRUE,
         [T \in Candidates \cup {NullptrT} |-> get_tag_of_type(T)])

\* mutant: call strips the tag from the stored word before it dispatches
Call_untagging(func, const) ==
    /\ last' = Did("call", func, const, call(a, func, const))
    /\ a' = ptr(a)
    /\ UNCHANGED <<N, b, madeA, madeB>>

Call(func, const) == Read("call", func, const, call(a, func, const))

Equals == Read("==", NoFunc, TRUE, operator_eq(a, b))

NotEquals == Read("!=", NoFunc, TRUE, operator_ne(a, b))

\* no member function of a has been called yet
Building == last.op \in {"instantiate", "construct"}

\* (in Next, NextPair and NextPairEnds only one thread runs: reader stays Idle)

\* one reference: a run constructs and reassigns a, then applies one operation
\* to it and keeps what it returned. (What an operation returns depends on the
\* words alone, and it assigns nothing, so operations after the first reach no
\* further value; NextPair interleaves operations and assignments freely.)
Next ==
    \/ Building /\ DefaultConstructA /\ UNCHANGED reader
    \/ Building /\ NullConstructA /\ UNCHANGED reader
    \/ Building /\ \E T \in 0..(N - 1), p \in Addrs : ConstructA(T, p) /\ UNCHANGED reader
    \/ Building /\ NumTypes /\ UNCHANGED reader
    \/ Building /\ Tag /\ UNCHANGED reader
    \/ Building /\ \E c \in BOOLEAN : Ptr(c) /\ UNCHANGED reader
    \/ Building /\ \E c \in BOOLEAN : Cast(c) /\ UNCHANGED reader
    \/ Building /\ \E c \in BOOLEAN : CastUnchecked(c) /\ UNCHANGED reader
    \/ Building /\ PointsToType /\ UNCHANGED reader
    \/ Building /\ GetTagOfType /\ UNCHANGED reader
    \/ Building /\ \E f \in Funcs, c \in BOOLEAN : Call(f, c) /\ UNCHANGED reader
    \/ Building /\ Equals /\ UNCHANGED reader
    \/ Building /\ NotEquals /\ UNCHANGED reader

Spec == Init /\ [][Next]_vars

\* two references: construction, copies, reassignment and comparison
NextPair ==
    \/ DefaultConstructA /\ UNCHANGED reader
    \/ NullConstructA /\ UNCHANGED reader
    \/ \E T \in 0..(N - 1), p \in Addrs : ConstructA(T, p) /\ UNCHANGED reader
    \/ NullConstructB /\ UNCHANGED reader
    \/ \E T \in 0..(N - 1), p \in Addrs : ConstructB(T, p) /\ UNCHANGED reader
    \/ CopyAToB /\ UNCHANGED reader
    \/ CopyBToA /\ UNCHANGED reader
    \/ Tag /\ UNCHANGED reader
    \/ \E c \in BOOLEAN : Ptr(c) /\ UNCHANGED reader
    \/ Equals /\ UNCHANGED reader
    \/ NotEquals /\ UNCHANGED reader

SpecPair == InitPair /\ [][NextPair]_vars

\* the first and the last candidate type of the type-set
EndTypes == {0, N - 1}

\* two references over a type-set of any size up to MaxTypes, constructed from
\* pointers to its first and its last type: copies, reassignment, comparison
NextPairEnds ==
    \/ NullConstructA /\ UNCHANGED reader
    \/ \E T \in EndTypes, p \in Addrs : ConstructA(T, p) /\ UNCHANGED reader
    \/ NullConstructB /\ UNCHANGED reader
    \/ \E T \in EndTypes, p \in Addrs : ConstructB(T, p) /\ UNCHANGED reader
    \/ CopyAToB /\ UNCHANGED reader
    \/ CopyBToA /\ UNCHANGED reader
    \/ Equals /\ UNCHANGED reader
    \/ NotEquals /\ UNCHANGED reader

SpecPairEnds == Init /\ [][NextPairEnds]_vars

----------------------------------------------------------------------------
(* A second thread that calls call(func) or cast<T>() on a while the first   *)
(* thread reassigns a.  Every evaluation of the member tagged_address is one *)
(* atomic load of the word; an assignment is one atomic store.               *)

InitConc == \E n \in 1..MaxConcTypes : Instantiate(n)

\* the pointers the first thread assigns: non-null addresses that fit the
\* address field
ConcAddrs == {p \in Addrs : p # nullptr /\ ptr(p) = p}

Running == reader.pc \notin {"idle", "returned"}

\* history: the store of the first thread is a value a's word held while the
\* member function of the second thread ran
Observe ==
    reader' = IF Running THEN [reader EXCEPT !.seen = @ \cup {a'}] ELSE reader

ReaderStep == UNCHANGED <<N, a, b, madeA, madeB, last>>

\* the second thread enters a.call(func)
CallBegin(func, const) ==
    /\ ~Running
    /\ reader' = [Idle EXCEPT !.pc = "call", !.op = "call", !.func = func,
                              !.const = const, !.seen = {a}]
    /\ ReaderStep

\* the argument ptr() of dispatch_call: tagged_address & GET_PTR_MASK
CallLoadPtr ==
    /\ reader.pc = "call"
    /\ reader.ptrv = {}
    /\ reader' = [reader EXCEPT !.ptrv = {ptr(a)}]
    /\ ReaderStep

\* the argument tag() - 1 of dispatch_call: tagged_address >> TAG_SHIFT; the
\* arguments of a function call are evaluated in either order
CallLoadTag ==
    /\ reader.pc = "call"
    /\ reader.tagv = {}
    /\ reader' = [reader EXCEPT !.tagv = {tag(a)}]
    /\ ReaderStep

\* return detail::dispatch_call<Func, Ts...>(func, ptr(), tag() - 1)
CallDispatch ==
    /\ reader.pc = "call"
    /\ \E p \in reader.ptrv, t \in reader.tagv :
         reader' = [reader EXCEPT !.pc = "returned",
                       !.res = call_with(p, t, reader.func, reader.const)]
    /\ ReaderStep

\* the second thread enters a.cast<T>()
CastBegin(T, const) ==
    /\ ~Running
    /\ ContainsType(T, Ts)
    /\ reader' = [Idle EXCEPT !.pc = "cast", !.op = "cast", !.T = T,
                              !.const = const, !.seen = {a}]
    /\ ReaderStep

\* points_to_type<T>() ? ... : nullptr, which evaluates tag()
CastCheck ==
    /\ reader.pc = "cast"
    /\ reader' = IF tag(a) = FromNat(get_tag_of_type(reader.T))
                 THEN [reader EXCEPT !.pc = "cast_matched", !.tagv = {tag(a)}]
                 ELSE [reader EXCEPT !.pc = "returned", !.tagv = {tag(a)},
                                     !.res = nullptr]
    /\ ReaderStep

\* ... ? static_cast<T*>(ptr()) : ..., which evaluates ptr()
CastLoadPtr ==
    /\ reader.pc = "cast_matched"
    /\ reader' = [reader EXCEPT !.pc = "returned", !.ptrv = {ptr(a)},
                                !.res = ptr(a)]
    /\ ReaderStep

NextConc ==
    \/ \E T \in 0..(N - 1), p \in ConcAddrs : ConstructA(T, p) /\ Observe
    \/ \E f \in Funcs, c \in BOOLEAN : CallBegin(f, c)
    \/ CallLoadPtr
    \/ CallLoadTag
    \/ CallDispatch
    \/ \E T \in 0..(N - 1), c \in BOOLEAN : CastBegin(T, c)
    \/ CastCheck
    \/ CastLoadPtr

SpecConc == InitConc /\ [][NextConc]_vars

----------------------------------------------------------------------------
(* Properties *)

\* the value of tag() as a number
TagValue(w) == ToNat(tag(w))

\* the address has no bit set at or above bit 59
FitsAddressField(p) == \A i \in p : i < 59

\* the word the constructor call m produces
Constructed(m) ==
    IF m.ctor = "typed" THEN TaggedPointer_ptr(m.type, m.addr)
    ELSE TaggedPointer_nullptr

\* what call must do on a reference of tag t >= 1: one invocation of func on the
\* decoded address viewed as the type at zero-indexed position t - 1
Dispatched(func, const, w) ==
    LET view == View(TagValue(w) - 1, const, ptr(w))
    IN [built |-> TRUE, calls |-> <<view>>, ret |-> Invoke(func, view)]

\* C1: for every type-set size N in 1..31 and every reference whose tag t is
\* in 1..N, call(func) invokes func exactly once with the decoded address
\* viewed as the type at position t - 1 and returns that invocation's result.
C1_DispatchCorrect ==
    (last.op = "call" /\ N \in 1..31 /\ TagValue(a) \in 1..N)
        => [f \in {"built", "calls", "ret"} |-> last.res[f]]
             = Dispatched(last.func, last.const, a)

\* C2: round trip: with at most 31 types and an address with no bit at or above
\* bit 59, the reference constructed from (T, addr) has tag() equal to
\* get_tag_of_type<T>() and ptr() equal to addr.
C2_RoundTrip ==
    (madeA.ctor = "typed" /\ N <= 31 /\ FitsAddressField(madeA.addr))
        => /\ TagValue(a) = get_tag_of_type(madeA.type)
           /\ ptr(a) = madeA.addr
           /\ last.op = "tag" => ToNat(last.res) = get_tag_of_type(madeA.type)
           /\ last.op = "ptr" => last.res = madeA.addr

\* C2 witness: the last type of 31, at an address that uses bit 58, read back
C2_Witness ==
    /\ N = 31
    /\ madeA = Made("typed", 30, {4, 58})
    /\ last.op = "ptr"
    /\ last.res = {4, 58}

\* C3: tag identity: for a reference constructed from a pointer of candidate
\* type T (at an address that fits the address field), tag() equals
\* get_tag_of_type<T>(), points_to_type<T>() is true and points_to_type<U>() is
\* false for every other candidate type U.
C3_TagIdentity ==
    (madeA.ctor = "typed" /\ FitsAddressField(madeA.addr))
        => /\ TagValue(a) = get_tag_of_type(madeA.type)
           /\ last.op = "points_to_type"
                => \A U \in Candidates : last.res[U] = (U = madeA.type)

\* C4 as stated: cast<T>() returns the address the reference was constructed
\* from when its tag equals get_tag_of_type<T>() and nullptr when it differs,
\* and leaves the reference as it was constructed.
C4_SafeCast_AnyAddress ==
    last.op = "cast"
        => /\ a = Constructed(madeA)
           /\ \A T \in Candidates :
                last.res[T] = IF TagValue(a) = get_tag_of_type(T)
                              THEN madeA.addr ELSE nullptr

\* C4 amended: the same, for a reference constructed from an address with no
\* bit set at or above bit 59.
C4_SafeCast ==
    (last.op = "cast" /\ FitsAddressField(madeA.addr))
        => /\ a = Constructed(madeA)
           /\ \A T \in Candidates :
                last.res[T] = IF TagValue(a) = get_tag_of_type(T)
                              THEN madeA.addr ELSE nullptr

\* C4 witness: a cast that returns the address for one type and nullptr for
\* another
C4_Witness ==
    /\ last.op = "cast"
    /\ madeA.ctor = "typed"
    /\ FitsAddressField(madeA.addr)
    /\ \E T, U \in Candidates : last.res[T] = madeA.addr /\ last.res[U] = nullptr
                                 /\ madeA.addr # nullptr

\* C5: r1 == r2 holds iff the packed words are identical, that is iff both the
\* tags and the addresses match; r1 != r2 is the negation of r1 == r2.
C5_Equality ==
    /\ last.op = "=="
         => /\ last.res = (a = b)
            /\ last.res = (tag(a) = tag(b) /\ ptr(a) = ptr(b))
    /\ last.op = "!=" => last.res = ~operator_eq(a, b)

\* C5 witness: the same address under different tags compares unequal
C5_Witness ==
    /\ last.op = "=="
    /\ ptr(a) = ptr(b)
    /\ ptr(a) # nullptr
    /\ tag(a) # tag(b)
    /\ last.res = FALSE

\* C6: a reference made by the default constructor or by the nullptr
\* constructor has tag() = 0 and ptr() = the zero address (its word is 0), and
\* the two constructors produce equal references.
C6_NullDefault ==
    /\ madeA.ctor \in {"default", "nullptr"}
         => a = FromNat(0) /\ TagValue(a) = 0 /\ ptr(a) = nullptr
    /\ (madeA.ctor = "default" /\ madeB.ctor = "nullptr" /\ last.op = "==")
         => last.res = TRUE

\* C6 witness: a default-constructed reference compared with a nullptr-constructed one
C6_Witness ==
    /\ madeA.ctor = "default"
    /\ madeB.ctor = "nullptr"
    /\ last.op = "=="
    /\ last.res = TRUE

\* C7: a type-set of more than 31 types is rejected at build time, so that no
\* reference is ever constructed from a pointer to a type whose tag does not
\* fit the 5 tag bits above TAG_SHIFT.
C7_CapacityBoundary ==
    madeA.ctor = "typed"
        => FromNat(get_tag_of_type(madeA.type)) \subseteq 0..(UINTPTR_BITS - TAG_SHIFT - 1)

\* C8 as stated: after any sequence of constructions and reassignments tag() is
\* in 0..N, N = num_types().
C8_TagRange_AnyAddress == TagValue(a) \in 0..num_types

\* C8 amended: tag() is in 0..N when the reference was last assigned null or a
\* pointer whose address has no bit set at or above bit 59.
C8_TagRange ==
    FitsAddressField(madeA.addr) => TagValue(a) \in 0..num_types

\* C8 witness: the largest tag of a type-set, after a reassignment
C8_Witness ==
    /\ madeA.ctor = "typed"
    /\ FitsAddressField(madeA.addr)
    /\ madeA.addr # nullptr
    /\ TagValue(a) = num_types
    /\ last.op = "tag"

\* the operations that only read
ReadOps ==
    {"call", "tag", "ptr", "cast", "cast_unchecked", "points_to_type", "==", "!="}

\* C9: call (const and non-const), tag, ptr, cast, cast_unchecked,
\* points_to_type, == and != leave the packed word of the reference unchanged.
C9_ReadsDoNotMutate ==
    [][last'.op \in ReadOps => (a' = a /\ b' = b)]_vars

\* C9 witness: a call that dispatched on a non-null reference
C9_Witness ==
    /\ last.op = "call"
    /\ last.res.built
    /\ TagValue(a) >= 1
    /\ a = Constructed(madeA)

\* C10 as stated: cast_unchecked<T>() returns ptr() whatever the tag, and that
\* is a non-absent address wherever cast<T>() returns nullptr because the tag
\* does not match.
C10_UncheckedCast_NonAbsent ==
    last.op = "cast_unchecked"
        => \A T \in Candidates :
             /\ last.res[T] = ptr(a)
             /\ ~points_to_type(a, T) => last.res[T] # nullptr

\* C10 amended: cast_unchecked<T>() returns ptr() whatever the tag; where
\* cast<T>() returns nullptr because the tag does not match, it returns a
\* non-absent address exactly when the decoded address is not zero.
C10_UncheckedCast ==
    last.op = "cast_unchecked"
        => \A T \in Candidates :
             /\ last.res[T] = ptr(a)
             /\ ~points_to_type(a, T) =>
                  /\ cast(a, T) = nullptr
                  /\ (last.res[T] # nullptr) = (ptr(a) # nullptr)

\* C10 witness: an unchecked cast to a type the reference does not hold returns
\* the address
C10_Witness ==
    /\ last.op = "cast_unchecked"
    /\ \E T \in Candidates :
         ~points_to_type(a, T) /\ cast(a, T) = nullptr /\ last.res[T] = ptr(a)
                               /\ ptr(a) # nullptr

\* C11: for the type-set T0..T(N-1), get_tag_of_type<Ti>() is i + 1 and
\* get_tag_of_type<std::nullptr_t>() is 0, so the mapping from std::nullptr_t
\* and the candidate types to tags is injective and its range is exactly 0..N.
C11_TypeIndexResolver ==
    last.op = "get_tag_of_type"
        => /\ DOMAIN last.res = (0..(N - 1)) \cup {NullptrT}
           /\ \A i \in 0..(N - 1) : last.res[i] = i + 1
           /\ last.res[NullptrT] = 0
           /\ \A T, U \in DOMAIN last.res : last.res[T] = last.res[U] => T = U
           /\ {last.res[T] : T \in DOMAIN last.res} = 0..N

\* C11 witness: the resolver applied to a type-set of more than 8 types, whose
\* last type resolves to N
C11_Witness ==
    /\ last.op = "get_tag_of_type"
    /\ N > 8
    /\ last.res[N - 1] = N
    /\ last.res[NullptrT] = 0

\* C12: call(func) on a null reference (tag 0: default-constructed or
\* nullptr-constructed) does not invoke func with the address viewed as any
\* candidate type.
C12_NullDispatchFailsFast ==
    (last.op = "call" /\ madeA.ctor \in {"default", "nullptr"} /\ TagValue(a) = 0)
        => last.res.calls = <<>>

\* C13: call(func) returns what func produced with its value category kept:
\* when func returns a reference to state of the pointee, the result of call
\* is a reference to that same state, not a copy.
C13_ReturnCategoryPreserved ==
    (last.op = "call" /\ last.res.built /\ TagValue(a) \in 1..N
                      /\ ptr(a) # nullptr)
        => /\ last.res.rtype = ReturnType(last.func)
           /\ last.func = "member_ref" => last.res.aliases = {ptr(a)}

\* C14: after b is copied from a, a == b; after b is then reassigned to a typed
\* pointer with a different address or a different candidate type, a != b and a
\* still decodes to the tag and address it was assigned; two references
\* constructed from pointers of different candidate types are never equal
\* (addresses with no bit at or above bit 59).
C14_CopyReassignEquality ==
    /\ last.op = "copy_b" => operator_eq(a, b)
    /\ (last.op = "==" /\ madeB = madeA) => last.res = TRUE
    /\ (/\ madeA.ctor = "typed" /\ FitsAddressField(madeA.addr)
        /\ madeB.ctor = "typed" /\ FitsAddressField(madeB.addr)
        /\ (madeA.type # madeB.type \/ madeA.addr # madeB.addr))
         => /\ last.op = "==" => last.res = FALSE
            /\ last.op = "!=" => last.res = TRUE
            /\ tag(a) = tag(Constructed(madeA))
            /\ ptr(a) = madeA.addr

\* C15: an assignment to a reference replaces the whole value: after a = nullptr
\* the tag and the address are zero, after a = b they are those of b, and a
\* reassignment from (T, address) to (U, address2) (address2 with no bit at or
\* above bit 59) yields exactly (get_tag_of_type<U>(), address2).
C15_WholeValueReassignment ==
    [][/\ (last'.op = "construct" /\ madeA'.ctor = "nullptr")
            => (TagValue(a') = 0 /\ ptr(a') = nullptr)
       /\ last'.op = "copy_a" => (tag(a') = tag(b) /\ ptr(a') = ptr(b))
       /\ (/\ last'.op = "construct"
           /\ madeA.ctor = "typed"
           /\ madeA'.ctor = "typed"
           /\ FitsAddressField(madeA'.addr))
            => /\ TagValue(a') = get_tag_of_type(madeA'.type)
               /\ ptr(a') = madeA'.addr]_vars

\* C16: with atomic loads and stores of the word, a call(func) or cast<T>() that
\* runs while another thread reassigns the reference between typed pointers
\* uses a tag and an address taken from one value the word held: func is
\* invoked on (and cast<T> returns the result for) one of those values.
C16_ConsistentSnapshot ==
    (reader.pc = "returned" /\ \A w \in reader.seen : TagValue(w) \in 1..N)
        => \E w \in reader.seen :
             IF reader.op = "call"
             THEN reader.res.calls = <<View(TagValue(w) - 1, reader.const, ptr(w))>>
             ELSE reader.res = cast(w, reader.T)

\* C17: constructing a reference from a pointer of type T whose address has a
\* bit at or above bit 59 succeeds; the result has ptr() equal to the address
\* modulo 2^59 and tag() equal to get_tag_of_type<T>() OR-ed with the address
\* divided by 2^59.
C17_AddressFitNotEnforced ==
    (madeA.ctor = "typed" /\ ~FitsAddressField(madeA.addr))
        => /\ a = Constructed(madeA)
           /\ ptr(a) = {i \in madeA.addr : i < TAG_SHIFT}
           /\ tag(a) = BitOr(FromNat(get_tag_of_type(madeA.type)),
                             ShiftRight(madeA.addr, TAG_SHIFT))

====
